---- MODULE Spec2Model ----
(***************************************************************************)
(* Message-history reconciliation and streaming-response protocol of the   *)
(* chat backend: postChats / createJsonStream / getMessagesWithIds /       *)
(* cleanupDuplicates (chats-post.ts) and deleteMessage (chats-delete.ts),  *)
(* over one session of the chat-history store.                             *)
(*                                                                         *)
(* Strings are sequences of one-character strings, so that trim() and      *)
(* concatenation are computed and not assumed.  A stored message is the    *)
(* record the store keeps: type, content, additional_kwargs.messageId      *)
(* (akId), response_metadata.messageId (rmId) and the other                *)
(* additional_kwargs entries (kw).  The field key is a ghost serial that   *)
(* names the message across rewrites of the history.                       *)
(***************************************************************************)
EXTENDS Integers, Sequences, FiniteSets, TLC

\* ---------------------------------------------------------------- bounds
MaxReq == 2
MaxClock == 2
MaxIds == 7
MaxResponses == 3

\* ------------------------------------------------------------- constants
Null == 0
SessionId == 1
UserId == 1
Absent == <<>>

\* ------------------------------------------------------------ input sets
\* content of the last message of a request body; <<>> is the empty content
Questions == { <<>>, <<"a">>, <<" ", "a">>, <<"b">> }

\* request bodies of postChats: without a messages property, with an empty
\* messages list, and with a list whose last message has each content
Bodies ==
  { [hasMessages |-> FALSE, messages |-> <<>>],
    [hasMessages |-> TRUE, messages |-> <<>>] }
    \cup { [hasMessages |-> TRUE, messages |-> <<q>>] : q \in Questions }

\* what the model stream yields for one request, chunk by chunk: an answer
\* ending with a blank, an answer behind an empty chunk, an answer starting
\* with a blank, a blank answer, and a stream without chunks
Answers ==
  { << <<"a">>, <<" ">> >>,
    << <<>>, <<"a">> >>,
    << <<" ">>, <<"a">> >>,
    << <<" ">> >>,
    <<>> }

Reqs == 1..MaxReq

MetaKeys == {"title", "sessionId", "userId", "createdAt", "updatedAt",
             "messageIndex", "isFirst", "isLast"}
NoKwargs == [k \in MetaKeys |-> Absent]

\* history  the messages of the session in the chat-history store
\* uuid     the identifiers handed out by uuidv4() so far (the next is uuid + 1)
\* serial   the ghost serials given to messages so far
\* now      the clock read by deleteMessage for updatedAt
\* req      the postChats requests: handler position, locals, stream state
\* listed   the <<serial, id>> pairs reported by getMessagesWithIds so far
\* last     the handler step taken last: operation, outcome, argument and,
\*          for deleteMessage and cleanupDuplicates, the history it found
\* client   the getCompletion generator of the web client and its caller
VARIABLES history, uuid, serial, now, req, listed, last, client

vars == <<history, uuid, serial, now, req, listed, last, client>>

\* ------------------------------------------------------- string helpers
IsSpace(c) == c = " "

RECURSIVE TrimStart(_)
TrimStart(s) ==
  IF s = <<>> THEN <<>>
  ELSE IF IsSpace(Head(s)) THEN TrimStart(Tail(s)) ELSE s

RECURSIVE TrimEnd(_)
TrimEnd(s) ==
  IF s = <<>> THEN <<>>
  ELSE IF IsSpace(s[Len(s)]) THEN TrimEnd(SubSeq(s, 1, Len(s) - 1)) ELSE s

\* String.prototype.trim
Trim(s) == TrimEnd(TrimStart(s))

\* ------------------------------------------------------------- messages
\* additional_kwargs.messageId || response_metadata.messageId || msg.messageId
\* || msg.id || null; the store keeps neither a messageId property nor, for
\* the messages built here, an id, so the last two are never set on a read
getMessageId(msg) ==
  IF msg.akId # Null THEN msg.akId
  ELSE IF msg.rmId # Null THEN msg.rmId
  ELSE Null

\* new HumanMessage(content) / new AIMessage(content) followed by setMessageId
NewMessage(type, content, messageId, key) ==
  [type |-> type, content |-> content, akId |-> messageId, rmId |-> messageId,
   kw |-> NoKwargs, key |-> key]

\* chatHistory.addMessage
addMessage(h, msg) == Append(h, msg)

\* chatHistory.clear
clear(h) == <<>>


\* -------------------------------------------------------------- requests
IdleReq ==
  [pc |-> "idle", question |-> <<>>, existingMessages |-> <<>>,
   isDuplicate |-> FALSE, userMessageId |-> Null, aiMessageId |-> Null,
   chunks |-> <<>>, produced |-> <<>>, fullResponse |-> <<>>, lines |-> <<>>, aiAdds |-> 0]

Busy(r) == req[r].pc \in {"checked", "streaming"}

\* requests of the session are served one after the other
NoneBusy == \A r \in Reqs : ~Busy(r)

NextReq(r) ==
  /\ req[r].pc = "idle"
  /\ IF r = 1 THEN TRUE ELSE req[r - 1].pc # "idle"

Done(op, status, arg, before) ==
  [op |-> op, status |-> status, arg |-> arg, before |-> before]

\* ------------------------------------------------------------- postChats
\* variant: the duplicate test compares the contents as they are
IsDuplicateExact(existingMessages, userQuestion) ==
  \E i \in 1..Len(existingMessages) :
     /\ existingMessages[i].type = "human"
     /\ existingMessages[i].content = userQuestion

\* existingMessages.some(msg => isHuman && content.trim() === userQuestion.trim())
IsDuplicate(existingMessages, userQuestion) ==
  \E i \in 1..Len(existingMessages) :
     /\ existingMessages[i].type = "human"
     /\ Trim(existingMessages[i].content) = Trim(userQuestion)

\* existingMessages.filter(msg => msg.type === 'human' && msg.content === userQuestion)
ExistingUserMsgs(existingMessages, userQuestion) ==
  LET Same(msg) == msg.type = "human" /\ msg.content = userQuestion
  IN SelectSeq(existingMessages, Same)

\* what is remembered of the requests before r once r arrives: of the
\* previous request how it ended and its question, of older requests nothing
Archive(rq, r) ==
  [p \in Reqs |->
     IF p = r - 1
       THEN [IdleReq EXCEPT !.pc = rq[p].pc, !.question = rq[p].question]
     ELSE IF p < r - 1 THEN [IdleReq EXCEPT !.pc = "archived"]
     ELSE rq[p]]

\* !messages || messages.length === 0 || !messages.at(-1)?.content
Invalid(body) ==
  \/ ~body.hasMessages
  \/ Len(body.messages) = 0
  \/ body.messages[Len(body.messages)] = <<>>

\* variant: the history is read before the body is validated
PostChatsReadFirst(r, body) ==
  /\ NextReq(r)
  /\ NoneBusy
  /\ IF Invalid(body)
       THEN /\ req' = [Archive(req, r) EXCEPT ![r].pc = "rejected",
                                              ![r].existingMessages = history]
            /\ last' = Done("postChats", "badRequest", r, history)
       ELSE LET userQuestion == body.messages[Len(body.messages)]
            IN /\ req' = [Archive(req, r) EXCEPT
                            ![r].pc = "checked",
                            ![r].question = userQuestion,
                            ![r].existingMessages = history,
                            ![r].isDuplicate = IsDuplicate(history, userQuestion)]
               /\ last' = Done("postChatsRead", "ok", r, <<>>)
  /\ UNCHANGED <<history, uuid, serial, now, listed, client>>

\* validation, chatHistory.getMessages() and the duplicate test
PostChatsRead(r, body) ==
  /\ NextReq(r)
  /\ NoneBusy
  /\ IF Invalid(body)
       THEN /\ req' = [Archive(req, r) EXCEPT ![r].pc = "rejected"]
            /\ last' = Done("postChats", "badRequest", r, history)
       ELSE LET userQuestion == body.messages[Len(body.messages)]
            IN /\ req' = [Archive(req, r) EXCEPT
                            ![r].pc = "checked",
                            ![r].question = userQuestion,
                            ![r].existingMessages = history,
                            ![r].isDuplicate = IsDuplicate(history, userQuestion)]
               /\ last' = Done("postChatsRead", "ok", r, <<>>)
  /\ UNCHANGED <<history, uuid, serial, now, listed, client>>

\* the same steps of a request that arrives while earlier requests of the
\* session are still being served (everything about them is kept)
PostChatsReadOverlapping(r, body) ==
  /\ NextReq(r)
  /\ IF Invalid(body)
       THEN /\ req' = [req EXCEPT ![r].pc = "rejected"]
            /\ last' = Done("postChats", "badRequest", r, history)
       ELSE LET userQuestion == body.messages[Len(body.messages)]
            IN /\ req' = [req EXCEPT
                            ![r].pc = "checked",
                            ![r].question = userQuestion,
                            ![r].existingMessages = history,
                            ![r].isDuplicate = IsDuplicate(history, userQuestion)]
               /\ last' = Done("postChatsRead", "ok", r, <<>>)
  /\ UNCHANGED <<history, uuid, serial, now, listed, client>>

\* variant: the human message is added whatever the duplicate test said
PostChatsAddAlways(r, answer) ==
  /\ req[r].pc = "checked"
  /\ uuid + 2 <= MaxIds
  /\ history' = addMessage(history,
                  NewMessage("human", req[r].question, uuid + 1, serial + 1))
  /\ serial' = serial + 1
  /\ uuid' = uuid + 2
  /\ req' = [req EXCEPT ![r].pc = "streaming",
                        ![r].existingMessages = <<>>,
                        ![r].userMessageId = uuid + 1,
                        ![r].aiMessageId = uuid + 2,
                        ![r].chunks = answer]
  /\ last' = Done("postChats", "stream", r, <<>>)
  /\ UNCHANGED <<now, listed, client>>

\* the non-duplicate branch: a new human message is stored, then the model
\* stream (answer) and the response stream with a fresh aiMessageId are created
PostChatsAdd(r, answer) ==
  /\ req[r].pc = "checked"
  /\ ~req[r].isDuplicate
  /\ uuid + 2 <= MaxIds
  /\ history' = addMessage(history,
                  NewMessage("human", req[r].question, uuid + 1, serial + 1))
  /\ serial' = serial + 1
  /\ uuid' = uuid + 2
  /\ req' = [req EXCEPT ![r].pc = "streaming",
                        ![r].existingMessages = <<>>,
                        ![r].userMessageId = uuid + 1,
                        ![r].aiMessageId = uuid + 2,
                        ![r].chunks = answer]
  /\ last' = Done("postChats", "stream", r, <<>>)
  /\ UNCHANGED <<now, listed, client>>

\* the duplicate branch: the existing message is looked up by exact content;
\* getMessageId(undefined) throws and the handler answers serviceUnavailable
PostChatsReuse(r, answer) ==
  /\ req[r].pc = "checked"
  /\ req[r].isDuplicate
  /\ LET found == ExistingUserMsgs(req[r].existingMessages, req[r].question)
     IN IF found = <<>>
          THEN /\ req' = [req EXCEPT ![r].pc = "error",
                                     ![r].existingMessages = <<>>]
               /\ last' = Done("postChats", "serviceUnavailable", r, <<>>)
               /\ UNCHANGED uuid
          ELSE LET existingId == getMessageId(found[Len(found)])
                   fresh == IF existingId = Null THEN 2 ELSE 1
               IN /\ uuid + fresh <= MaxIds
                  /\ uuid' = uuid + fresh
                  /\ req' = [req EXCEPT
                       ![r].pc = "streaming",
                       ![r].existingMessages = <<>>,
                       ![r].userMessageId =
                          IF existingId = Null THEN uuid + 1 ELSE existingId,
                       ![r].aiMessageId = uuid + fresh,
                       ![r].chunks = answer]
                  /\ last' = Done("postChats", "stream", r, <<>>)
  /\ UNCHANGED <<history, serial, now, listed, client>>

\* -------------------------------------------------------- createJsonStream
\* JSON.stringify(responseChunk) + '\n'
ResponseLine(chunk, sessionId, messageId) ==
  [delta |-> [content |-> chunk, role |-> "assistant"],
   context |-> [sessionId |-> sessionId, messageId |-> messageId],
   eol |-> "\n"]

\* variant: no chunk is skipped
SkippedNever(chunk) == FALSE

\* if (!chunk) continue;
Skipped(chunk) == chunk = <<>>

\* existingMessages.some(msg => msg.type === 'ai' && msg.content === fullResponse.trim())
ResponseAlreadyExists(existingMessages, fullResponse) ==
  \E i \in 1..Len(existingMessages) :
     /\ existingMessages[i].type = "ai"
     /\ existingMessages[i].content = Trim(fullResponse)

\* variant: the answer is stored trimmed
AiMessageTrimmed(fullResponse, messageId, key) ==
  NewMessage("ai", Trim(fullResponse), messageId, key)

\* variant: the answer is stored under the identifier generated just before
\* the stream's own
AiMessageSharedId(fullResponse, messageId, key) ==
  NewMessage("ai", fullResponse, messageId - 1, key)

\* new AIMessage(fullResponse); setMessageId(aiMessage, messageId)
AiMessage(fullResponse, messageId, key) ==
  NewMessage("ai", fullResponse, messageId, key)

\* variant: the answer accumulated so far is saved on every turn of the loop
StreamChunkSaving(r) ==
  /\ req[r].pc = "streaming"
  /\ Len(req[r].produced) < Len(req[r].chunks)
  /\ LET c == req[r].chunks[Len(req[r].produced) + 1]
         full == IF Skipped(c) THEN req[r].fullResponse
                 ELSE req[r].fullResponse \o c
         save == Trim(full) # <<>> /\ ~ResponseAlreadyExists(history, full)
     IN /\ req' = [req EXCEPT
               ![r].produced = Append(@, c),
               ![r].fullResponse = full,
               ![r].lines = IF Skipped(c) THEN @
                            ELSE Append(@, ResponseLine(c, SessionId,
                                                        req[r].aiMessageId)),
               ![r].aiAdds = IF save THEN @ + 1 ELSE @]
        /\ history' = IF save
                        THEN addMessage(history,
                               AiMessage(full, req[r].aiMessageId, serial + 1))
                        ELSE history
        /\ serial' = IF save THEN serial + 1 ELSE serial
  /\ last' = Done("chunk", "ok", r, <<>>)
  /\ UNCHANGED <<uuid, now, listed, client>>

\* one turn of the for-await loop: the model stream produces its next chunk
StreamChunk(r) ==
  /\ req[r].pc = "streaming"
  /\ Len(req[r].produced) < Len(req[r].chunks)
  /\ LET c == req[r].chunks[Len(req[r].produced) + 1]
     IN req' = [req EXCEPT
          ![r].produced = Append(@, c),
          ![r].fullResponse = IF Skipped(c) THEN @ ELSE @ \o c,
          ![r].lines = IF Skipped(c) THEN @
                       ELSE Append(@, ResponseLine(c, SessionId,
                                                   req[r].aiMessageId))]
  /\ last' = Done("chunk", "ok", r, <<>>)
  /\ UNCHANGED <<history, uuid, serial, now, listed, client>>

\* variant: the accumulated text is tested without trim()
StreamEndUntrimmed(r) ==
  /\ req[r].pc = "streaming"
  /\ Len(req[r].produced) = Len(req[r].chunks)
  /\ LET full == req[r].fullResponse
         blank == full = <<>>
         save == ~blank /\ ~ResponseAlreadyExists(history, full)
     IN /\ history' = IF save
                        THEN addMessage(history,
                               AiMessage(full, req[r].aiMessageId, serial + 1))
                        ELSE history
        /\ serial' = IF save THEN serial + 1 ELSE serial
        /\ req' = [req EXCEPT ![r].pc = "done",
                              ![r].aiAdds = IF save THEN @ + 1 ELSE @]
        /\ last' = Done("streamEnd",
                        IF blank THEN "blank"
                        ELSE IF save THEN "saved" ELSE "skipped",
                        r, IF blank THEN <<>> ELSE history)
  /\ UNCHANGED <<uuid, now, listed, client>>

\* the model stream is exhausted and the caller asks for the next element:
\* the code after the loop runs.  A blank text ends the generator at once;
\* otherwise the history is read (last.before is what getMessages returned)
\* and the answer is added unless responseAlreadyExists
StreamEnd(r) ==
  /\ req[r].pc = "streaming"
  /\ Len(req[r].produced) = Len(req[r].chunks)
  /\ LET full == req[r].fullResponse
         blank == Trim(full) = <<>>
         save == ~blank /\ ~ResponseAlreadyExists(history, full)
     IN /\ history' = IF save
                        THEN addMessage(history,
                               AiMessage(full, req[r].aiMessageId, serial + 1))
                        ELSE history
        /\ serial' = IF save THEN serial + 1 ELSE serial
        /\ req' = [req EXCEPT ![r].pc = "done",
                              ![r].aiAdds = IF save THEN @ + 1 ELSE @]
        /\ last' = Done("streamEnd",
                        IF blank THEN "blank"
                        ELSE IF save THEN "saved" ELSE "skipped",
                        r, IF blank THEN <<>> ELSE history)
  /\ UNCHANGED <<uuid, now, listed, client>>

\* the calls of the store inside the try block of createJsonStream
SaveCalls == {"getMessages", "addMessage"}

FailedStatus(call) ==
  IF call = "getMessages" THEN "getMessagesFailed" ELSE "addMessageFailed"

\* variant: no try/catch around the save, the error leaves the generator
StreamEndFailUncaught(r, call) ==
  /\ req[r].pc = "streaming"
  /\ Len(req[r].produced) = Len(req[r].chunks)
  /\ Trim(req[r].fullResponse) # <<>>
  /\ call = "addMessage" => ~ResponseAlreadyExists(history, req[r].fullResponse)
  /\ req' = [req EXCEPT ![r].pc = "failed"]
  /\ last' = Done("streamEnd", FailedStatus(call), r, <<>>)
  /\ UNCHANGED <<history, uuid, serial, now, listed, client>>

\* the code after the loop with a store that rejects call: the catch block
\* logs the error and the generator returns
StreamEndFail(r, call) ==
  /\ req[r].pc = "streaming"
  /\ Len(req[r].produced) = Len(req[r].chunks)
  /\ Trim(req[r].fullResponse) # <<>>
  /\ call = "addMessage" => ~ResponseAlreadyExists(history, req[r].fullResponse)
  /\ req' = [req EXCEPT ![r].pc = "done"]
  /\ last' = Done("streamEnd", FailedStatus(call), r, <<>>)
  /\ UNCHANGED <<history, uuid, serial, now, listed, client>>

\* the caller stops reading: the generator is returned at its yield
StreamCancel(r) ==
  /\ req[r].pc = "streaming"
  /\ req' = [req EXCEPT ![r].pc = "cancelled"]
  /\ last' = Done("streamCancel", "ok", r, <<>>)
  /\ UNCHANGED <<history, uuid, serial, now, listed, client>>

\* the model stream throws: the generator ends with that error
StreamFail(r) ==
  /\ req[r].pc = "streaming"
  /\ req' = [req EXCEPT ![r].pc = "failed"]
  /\ last' = Done("streamFail", "ok", r, <<>>)
  /\ UNCHANGED <<history, uuid, serial, now, listed, client>>

\* ----------------------------------------------------------- deleteMessage
\* messages.filter(msg => getMessageId(msg) !== messageId)
FilteredMessages(messages, messageId) ==
  LET Keep(msg) == getMessageId(msg) # messageId
  IN SelectSeq(messages, Keep)

\* messages.find(msg => getMessageId(msg) === messageId)
HasMessage(messages, messageId) ==
  \E i \in 1..Len(messages) : getMessageId(messages[i]) = messageId

\* variant: only the five named fields, updatedAt always the current time
SessionMetadataNamedOnly(firstMessage, sessionId, userId, time) ==
  LET own == firstMessage.kw
  IN [k \in MetaKeys |->
       CASE k = "title" -> own["title"]
         [] k = "sessionId" ->
              IF own["sessionId"] # Absent THEN own["sessionId"]
              ELSE <<sessionId>>
         [] k = "userId" ->
              IF own["userId"] # Absent THEN own["userId"] ELSE <<userId>>
         [] k = "createdAt" -> own["createdAt"]
         [] k = "updatedAt" -> <<time>>
         [] OTHER -> Absent]

\* the sessionMetadata object built from messages[0].additional_kwargs: the
\* five named fields first, then every entry of the first message except
\* messageId, content and role spread over them
SessionMetadata(firstMessage, sessionId, userId, time) ==
  LET own == firstMessage.kw
      named == [k \in MetaKeys |->
                 CASE k = "title" -> own["title"]
                   [] k = "sessionId" ->
                        IF own["sessionId"] # Absent THEN own["sessionId"]
                        ELSE <<sessionId>>
                   [] k = "userId" ->
                        IF own["userId"] # Absent THEN own["userId"]
                        ELSE <<userId>>
                   [] k = "createdAt" -> own["createdAt"]
                   [] k = "updatedAt" -> <<time>>
                   [] OTHER -> Absent]
  IN [k \in MetaKeys |-> IF own[k] # Absent THEN own[k] ELSE named[k]]

\* msg.additional_kwargs = {...sessionMetadata, ...msg.additional_kwargs,
\*   messageId, messageIndex: i, isFirst, isLast}
MergedMessage(sessionMetadata, msg, i, n) ==
  [msg EXCEPT
     !.akId = IF msg.akId # Null THEN msg.akId ELSE getMessageId(msg),
     !.kw = [k \in MetaKeys |->
              CASE k = "messageIndex" -> <<i>>
                [] k = "isFirst" -> <<i = 0>>
                [] k = "isLast" -> <<i = n - 1>>
                [] OTHER -> IF msg.kw[k] # Absent THEN msg.kw[k]
                            ELSE sessionMetadata[k]]]

\* variant: the spread of the session metadata brings the messageId of the
\* first remaining message onto every re-added message
RECURSIVE ReAddFirstId(_, _, _, _)
ReAddFirstId(h, filteredMessages, sessionMetadata, i) ==
  IF i >= Len(filteredMessages) THEN h
  ELSE ReAddFirstId(
         addMessage(h, [MergedMessage(sessionMetadata, filteredMessages[i + 1],
                                      i, Len(filteredMessages))
                          EXCEPT !.akId = filteredMessages[1].akId]),
         filteredMessages, sessionMetadata, i + 1)

\* variant: the loop stops one message early
RECURSIVE ReAddSkipLast(_, _, _, _)
ReAddSkipLast(h, filteredMessages, sessionMetadata, i) ==
  IF i >= Len(filteredMessages) - 1 THEN h
  ELSE ReAddSkipLast(
         addMessage(h, MergedMessage(sessionMetadata, filteredMessages[i + 1],
                                     i, Len(filteredMessages))),
         filteredMessages, sessionMetadata, i + 1)

\* for (let i = 0; i < filteredMessages.length; i++) { ...; addMessage(msg) }
RECURSIVE ReAdd(_, _, _, _)
ReAdd(h, filteredMessages, sessionMetadata, i) ==
  IF i >= Len(filteredMessages) THEN h
  ELSE ReAdd(addMessage(h, MergedMessage(sessionMetadata, filteredMessages[i + 1],
                                         i, Len(filteredMessages))),
             filteredMessages, sessionMetadata, i + 1)

\* the five badRequest returns: !messageId, !sessionId, !userId, no messages
\* in the session, no message with that identifier
DeleteRejected(messages, messageId, sessionId, userId) ==
  \/ messageId = Null
  \/ sessionId = Null
  \/ userId = Null
  \/ messages = <<>>
  \/ ~HasMessage(messages, messageId)

\* the handler run to its end with a store that accepts every call
deleteMessage(messageId, sessionId, userId) ==
  /\ NoneBusy
  /\ IF DeleteRejected(history, messageId, sessionId, userId)
       THEN /\ last' = Done("deleteMessage", "badRequest", messageId, history)
            /\ UNCHANGED <<history, now>>
       ELSE /\ now < MaxClock
            /\ now' = now + 1
            /\ LET filteredMessages == FilteredMessages(history, messageId)
                   sessionMetadata ==
                     SessionMetadata(history[1], sessionId, userId, now + 1)
               IN history' = ReAdd(clear(history), filteredMessages,
                                   sessionMetadata, 0)
            /\ last' = Done("deleteMessage", "ok", messageId, history)
  /\ UNCHANGED <<uuid, serial, req, listed, client>>

\* deleteMessage call by call.  Between its steps last holds the locals of
\* the handler: messageId (arg), messages as read (before), and whether
\* clear has been called (status "read" before it, "writing" after it); the
\* loop index i is the number of messages re-added so far
Deleting == last.op = "deleteMessage" /\ last.status \in {"read", "writing"}

\* variant: the history is cleared before the message is looked up
DeleteReadClearing(messageId, sessionId, userId) ==
  /\ NoneBusy
  /\ ~Deleting
  /\ IF DeleteRejected(history, messageId, sessionId, userId)
       THEN /\ last' = Done("deleteMessage", "badRequest", messageId, history)
            /\ history' = IF messageId = Null \/ sessionId = Null \/ userId = Null
                             THEN history
                             ELSE clear(history)
            /\ UNCHANGED now
       ELSE /\ now < MaxClock
            /\ now' = now + 1
            /\ last' = Done("deleteMessage", "read", messageId, history)
            /\ UNCHANGED history
  /\ UNCHANGED <<uuid, serial, req, listed, client>>

\* validation, getMessages, the lookup and the clock read for updatedAt
DeleteRead(messageId, sessionId, userId) ==
  /\ NoneBusy
  /\ ~Deleting
  /\ IF DeleteRejected(history, messageId, sessionId, userId)
       THEN /\ last' = Done("deleteMessage", "badRequest", messageId, history)
            /\ UNCHANGED now
       ELSE /\ now < MaxClock
            /\ now' = now + 1
            /\ last' = Done("deleteMessage", "read", messageId, history)
  /\ UNCHANGED <<history, uuid, serial, req, listed, client>>

\* variant: the filtered messages are re-added without clearing first
DeleteClearSkipped ==
  /\ Deleting
  /\ last.status = "read"
  /\ history' = history
  /\ last' = [last EXCEPT !.status =
                 IF FilteredMessages(last.before, last.arg) = <<>> THEN "ok"
                 ELSE "writing"]
  /\ UNCHANGED <<uuid, serial, now, req, listed, client>>

\* await chatHistory.clear()
DeleteClear ==
  /\ Deleting
  /\ last.status = "read"
  /\ history' = clear(history)
  /\ last' = [last EXCEPT !.status =
                 IF FilteredMessages(last.before, last.arg) = <<>> THEN "ok"
                 ELSE "writing"]
  /\ UNCHANGED <<uuid, serial, now, req, listed, client>>

\* one turn of the re-add loop: merge the metadata, await addMessage(msg)
DeleteAdd ==
  /\ Deleting
  /\ last.status = "writing"
  /\ LET filteredMessages == FilteredMessages(last.before, last.arg)
         sessionMetadata ==
           SessionMetadata(last.before[1], SessionId, UserId, now)
         i == Len(history)
         n == Len(filteredMessages)
     IN /\ i < n
        /\ history' = addMessage(history,
                         MergedMessage(sessionMetadata, filteredMessages[i + 1],
                                       i, n))
        /\ last' = [last EXCEPT !.status = IF i + 1 = n THEN "ok" ELSE "writing"]
  /\ UNCHANGED <<uuid, serial, now, req, listed, client>>

\* clear or addMessage throws: the inner catch answers serviceUnavailable
DeleteFail ==
  /\ Deleting
  /\ last' = [last EXCEPT !.status = "serviceUnavailable"]
  /\ UNCHANGED <<history, uuid, serial, now, req, listed, client>>

\* ------------------------------------------------------ getMessagesWithIds
\* messages.map(msg => ({id: getMessageId(msg) || uuidv4(), ...})): the
\* identifiers reported for messages[1..i], next the uuid source
RECURSIVE MessagesWithIds(_, _, _)
MessagesWithIds(messages, i, next) ==
  IF i > Len(messages) THEN [ids |-> <<>>, next |-> next]
  ELSE LET stored == getMessageId(messages[i])
           id == IF stored # Null THEN stored ELSE next + 1
           rest == MessagesWithIds(messages, i + 1,
                                   IF stored # Null THEN next ELSE next + 1)
       IN [ids |-> <<id>> \o rest.ids, next |-> rest.next]

getMessagesWithIds ==
  /\ NoneBusy
  /\ LET res == MessagesWithIds(history, 1, uuid)
     IN /\ res.next <= MaxIds
        /\ uuid' = res.next
        /\ listed' = listed \cup
             { <<history[i].key, res.ids[i]>> : i \in 1..Len(history) }
  /\ last' = Done("getMessagesWithIds", "ok", Len(history), <<>>)
  /\ UNCHANGED <<history, serial, now, req, client>>

\* ------------------------------------------------------- cleanupDuplicates
\* variant: the seen-set is keyed by the content alone
RECURSIVE UniqueMessagesByContent(_, _, _, _)
UniqueMessagesByContent(messages, i, seenContent, next) ==
  IF i > Len(messages) THEN [msgs |-> <<>>, next |-> next]
  ELSE LET msg == messages[i]
           key == msg.content
       IN IF key \in seenContent
            THEN UniqueMessagesByContent(messages, i + 1, seenContent, next)
            ELSE IF getMessageId(msg) = Null
              THEN LET rest == UniqueMessagesByContent(messages, i + 1,
                                              seenContent \cup {key}, next + 1)
                   IN [msgs |-> <<NewMessage(msg.type, msg.content, next + 1,
                                            msg.key)>> \o rest.msgs,
                       next |-> rest.next]
              ELSE LET rest == UniqueMessagesByContent(messages, i + 1,
                                              seenContent \cup {key}, next)
                   IN [msgs |-> <<msg>> \o rest.msgs, next |-> rest.next]

\* the loop over messages: first occurrence of each `${type}:${content}` is
\* kept, and a kept message without identifier is rebuilt with a new one
RECURSIVE UniqueMessages(_, _, _, _)
UniqueMessages(messages, i, seenContent, next) ==
  IF i > Len(messages) THEN [msgs |-> <<>>, next |-> next]
  ELSE LET msg == messages[i]
           key == <<msg.type, msg.content>>
       IN IF key \in seenContent
            THEN UniqueMessages(messages, i + 1, seenContent, next)
            ELSE IF getMessageId(msg) = Null
              THEN LET rest == UniqueMessages(messages, i + 1,
                                              seenContent \cup {key}, next + 1)
                   IN [msgs |-> <<NewMessage(msg.type, msg.content, next + 1,
                                            msg.key)>> \o rest.msgs,
                       next |-> rest.next]
              ELSE LET rest == UniqueMessages(messages, i + 1,
                                              seenContent \cup {key}, next)
                   IN [msgs |-> <<msg>> \o rest.msgs, next |-> rest.next]

\* for (const msg of uniqueMessages) await chatHistory.addMessage(msg)
RECURSIVE AddAll(_, _)
AddAll(h, msgs) ==
  IF msgs = <<>> THEN h ELSE AddAll(addMessage(h, Head(msgs)), Tail(msgs))

\* variant: every kept message is rebuilt under a new identifier and the
\* history is rewritten whether or not something was removed
cleanupDuplicatesRenumbering ==
  /\ NoneBusy
  /\ LET res == UniqueMessages(history, 1, {}, uuid)
         removedCount == Len(history) - Len(res.msgs)
     IN /\ uuid + Len(res.msgs) <= MaxIds
        /\ uuid' = uuid + Len(res.msgs)
        /\ history' = AddAll(clear(history),
                         [i \in 1..Len(res.msgs) |->
                            NewMessage(res.msgs[i].type, res.msgs[i].content,
                                       uuid + i, res.msgs[i].key)])
        /\ last' = [op |-> "cleanupDuplicates", status |-> "ok",
                    arg |-> removedCount, before |-> history,
                    again |-> (last.op = "cleanupDuplicates"
                                 /\ last.status = "ok")]
  /\ UNCHANGED <<serial, now, req, listed, client>>

\* the handler run to its end; last.again tells that the handler step before
\* this one was a successful cleanupDuplicates as well
cleanupDuplicates ==
  /\ NoneBusy
  /\ LET res == UniqueMessages(history, 1, {}, uuid)
         removedCount == Len(history) - Len(res.msgs)
     IN /\ res.next <= MaxIds
        /\ uuid' = res.next
        /\ history' = IF removedCount > 0
                        THEN AddAll(clear(history), res.msgs)
                        ELSE history
        /\ last' = [op |-> "cleanupDuplicates", status |-> "ok",
                    arg |-> removedCount, before |-> history,
                    again |-> (last.op = "cleanupDuplicates"
                                 /\ last.status = "ok")]
  /\ UNCHANGED <<serial, now, req, listed, client>>

\* ----------------------------------------------- getCompletion (web client)
\* what a response of the streamed completion carries as delta: nothing, a
\* delta with content "a", a delta with empty content
Deltas == { Absent, << <<"a">> >>, << <<>> >> }

\* the responses of one streamed completion, seq their place in the stream
ResponseStreams ==
  UNION { [1..n -> Deltas] : n \in 0..MaxResponses }

Response(deltas, i) == [delta |-> deltas[i], seq |-> i]

\* result    the deltas of the responses the protocol client will deliver
\* received  how many of them the for-await loop has taken
\* promises  the responses a promise was created for, in order
\* delivered the values the promises have resolved to, in order
IdleClient ==
  [pc |-> "idle", result |-> <<>>, received |-> 0, promises |-> <<>>,
   delivered |-> <<>>]

\* variant: a delta with empty content is skipped as well
RepublishedNonEmpty(response) ==
  response.delta # Absent /\ response.delta[1] # <<>>

\* if (!response.delta) continue;
Republished(response) == response.delta # Absent

\* const result = await client.getStreamedCompletion(...)
GetCompletion(deltas) ==
  /\ client.pc = "idle"
  /\ client' = [IdleClient EXCEPT !.pc = "iterating", !.result = deltas]
  /\ UNCHANGED <<history, uuid, serial, now, req, listed, last>>

\* one turn of the for-await loop: the next response is taken; without delta
\* the loop continues, with a delta a promise is created and its timer set
ReceiveResponse ==
  /\ client.pc = "iterating"
  /\ client.received < Len(client.result)
  /\ LET response == Response(client.result, client.received + 1)
     IN client' = IF Republished(response)
                    THEN [client EXCEPT !.received = @ + 1,
                                        !.promises = Append(@, response),
                                        !.pc = "delayed"]
                    ELSE [client EXCEPT !.received = @ + 1]
  /\ UNCHANGED <<history, uuid, serial, now, req, listed, last>>

\* setTimeout fires after chunkIntervalMs: resolve(response); the yield of
\* the async generator hands the resolved value to the caller
TimerFires ==
  /\ client.pc = "delayed"
  /\ client' = [client EXCEPT
                  !.delivered = Append(@, client.promises[Len(client.promises)]),
                  !.pc = "yielded"]
  /\ UNCHANGED <<history, uuid, serial, now, req, listed, last>>

\* the caller asks for the next element: the generator resumes after yield
CallerNext ==
  /\ client.pc = "yielded"
  /\ client' = [client EXCEPT !.pc = "iterating"]
  /\ UNCHANGED <<history, uuid, serial, now, req, listed, last>>

\* the streamed completion is exhausted: the generator returns
GetCompletionEnd ==
  /\ client.pc = "iterating"
  /\ client.received = Len(client.result)
  /\ client' = [client EXCEPT !.pc = "done"]
  /\ UNCHANGED <<history, uuid, serial, now, req, listed, last>>

NextClient ==
  \/ \E deltas \in ResponseStreams : GetCompletion(deltas)
  \/ ReceiveResponse
  \/ TimerFires
  \/ CallerNext
  \/ GetCompletionEnd

\* ---------------------------------------------------------- specification
\* the messageId values a caller sends: none, an identifier of a stored
\* message, an identifier a listing reported, or one nothing ever issued
UnknownId == MaxIds + 1

DeleteInputs ==
  {Null, UnknownId}
    \cup { getMessageId(history[i]) : i \in 1..Len(history) }
    \cup { p[2] : p \in listed }

\* the sessionId and userId of a deleteMessage request: missing or this
\* session's
SessionInputs == {Null, SessionId}

UserInputs == {Null, UserId}

Init ==
  /\ history = <<>>
  /\ uuid = 0
  /\ serial = 0
  /\ now = 0
  /\ req = [r \in Reqs |-> IdleReq]
  /\ listed = {}
  /\ client = IdleClient
  /\ last = Done("init", "ok", 0, <<>>)

Next ==
  \/ \E r \in Reqs, body \in Bodies : PostChatsRead(r, body)
  \/ \E r \in Reqs, answer \in Answers : PostChatsAdd(r, answer)
  \/ \E r \in Reqs, answer \in Answers : PostChatsReuse(r, answer)
  \/ \E r \in Reqs : StreamChunk(r)
  \/ \E r \in Reqs : StreamEnd(r)
  \/ \E r \in Reqs : StreamCancel(r)
  \/ \E r \in Reqs : StreamFail(r)
  \/ \E messageId \in DeleteInputs : deleteMessage(messageId, SessionId, UserId)
  \/ cleanupDuplicates

\* the handlers that write the history, from an empty session
Spec == Init /\ [][Next]_vars

\* the same with the read-only listing handler
NextListing ==
  \/ Next
  \/ getMessagesWithIds

\* the answers of the model to overlapping requests: one chunk, or none
ShortAnswers == { << <<"a">> >>, <<>> }

\* postChats requests of one session served at the same time
NextOverlapping ==
  \/ \E r \in Reqs, body \in Bodies : PostChatsReadOverlapping(r, body)
  \/ \E r \in Reqs, answer \in ShortAnswers : PostChatsAdd(r, answer)
  \/ \E r \in Reqs, answer \in ShortAnswers : PostChatsReuse(r, answer)
  \/ \E r \in Reqs : StreamChunk(r)
  \/ \E r \in Reqs : StreamEnd(r)
  \/ \E r \in Reqs : StreamCancel(r)
  \/ \E r \in Reqs : StreamFail(r)

SpecOverlapping == Init /\ [][NextOverlapping]_vars

\* requests served one after the other, each model stream ending normally
\* and each response stream read by its caller to the end: the for-await
\* loop and the code after it are always resumed
NextReading ==
  \/ \E r \in Reqs, body \in Bodies : PostChatsRead(r, body)
  \/ \E r \in Reqs, answer \in Answers : PostChatsAdd(r, answer)
  \/ \E r \in Reqs, answer \in Answers : PostChatsReuse(r, answer)
  \/ \E r \in Reqs : StreamChunk(r)
  \/ \E r \in Reqs : StreamEnd(r)

SpecReading ==
  /\ Init
  /\ [][NextReading]_vars
  /\ \A r \in Reqs : WF_vars(StreamChunk(r)) /\ WF_vars(StreamEnd(r))

\* postChats and its stream with a store whose calls can fail at the save
NextFailing ==
  \/ \E r \in Reqs, body \in Bodies : PostChatsRead(r, body)
  \/ \E r \in Reqs, answer \in Answers : PostChatsAdd(r, answer)
  \/ \E r \in Reqs, answer \in Answers : PostChatsReuse(r, answer)
  \/ \E r \in Reqs : StreamChunk(r)
  \/ \E r \in Reqs : StreamEnd(r)
  \/ \E r \in Reqs, call \in SaveCalls : StreamEndFail(r, call)
  \/ \E r \in Reqs : StreamCancel(r)
  \/ \E r \in Reqs : StreamFail(r)

SpecFailing == Init /\ [][NextFailing]_vars

\* ------------------------------------------------ sessions found in the store
\* a message written before identifiers were attached (the history written
\* through RunnableWithMessageHistory, which the handlers still read)
LegacyMessage(type, content, key) ==
  [type |-> type, content |-> content, akId |-> Null, rmId |-> Null,
   kw |-> NoKwargs, key |-> key]

\* the session left by one completed postChats exchange (question "a",
\* answer "a " with a trailing blank), and a session without identifiers
ExistingSessions ==
  { <<NewMessage("human", <<"a">>, 1, 1), NewMessage("ai", <<"a", " ">>, 2, 2)>>,
    <<LegacyMessage("human", <<"a">>, 1), LegacyMessage("ai", <<"b">>, 2)>> }

RECURSIVE MaxStoredId(_)
MaxStoredId(h) ==
  IF h = <<>> THEN 0
  ELSE LET rest == MaxStoredId(Tail(h))
           id == getMessageId(Head(h))
       IN IF id > rest THEN id ELSE rest

InitExisting ==
  /\ history \in ExistingSessions
  /\ uuid = MaxStoredId(history)
  /\ serial = Len(history)
  /\ now = 0
  /\ req = [r \in Reqs |-> IdleReq]
  /\ listed = {}
  /\ client = IdleClient
  /\ last = Done("init", "ok", 0, <<>>)

\* one getCompletion call of the web client
SpecClient == Init /\ [][NextClient]_vars

SpecExisting == InitExisting /\ [][NextListing]_vars

\* the sessions deleteMessage is taken through call by call: an empty one,
\* the one left by two completed postChats exchanges, the one left by an
\* exchange and a question whose stream was interrupted, and the seeded ones
DeleteSessions ==
  { <<>>,
    <<NewMessage("human", <<"a">>, 1, 1), NewMessage("ai", <<"a", " ">>, 2, 2),
      NewMessage("human", <<"b">>, 3, 3), NewMessage("ai", <<"a">>, 4, 4)>>,
    <<NewMessage("human", <<"a">>, 1, 1), NewMessage("ai", <<"a">>, 2, 2),
      NewMessage("human", <<"b">>, 3, 3)>> }
    \cup ExistingSessions

InitDeleting ==
  /\ history \in DeleteSessions
  /\ uuid = MaxStoredId(history)
  /\ serial = Len(history)
  /\ now = 0
  /\ req = [r \in Reqs |-> IdleReq]
  /\ listed = {}
  /\ client = IdleClient
  /\ last = Done("init", "ok", 0, <<>>)

\* deleteMessage call by call, with a store whose clear and addMessage can fail
NextDeleting ==
  \/ \E messageId \in DeleteInputs, sessionId \in SessionInputs,
        userId \in UserInputs : DeleteRead(messageId, sessionId, userId)
  \/ DeleteClear
  \/ DeleteAdd
  \/ DeleteFail

SpecDeleting == InitDeleting /\ [][NextDeleting]_vars

\* ------------------------------------------------------------- properties
Positions == 1..Len(history)

IsHuman(i) == history[i].type = "human"

IsAi(i) == history[i].type = "ai"

\* C1: the stored history never holds two human messages whose contents are
\* equal after trimming, so a request whose trimmed question equals the
\* trimmed content of a stored human message has added no human message
C1_NoDuplicateHuman ==
  \A i, j \in Positions :
     (i < j /\ IsHuman(i) /\ IsHuman(j))
        => Trim(history[i].content) # Trim(history[j].content)

\* the second request repeated the stored question and went on without a
\* second human message
C1_Witness ==
  /\ last.op = "postChats"
  /\ last.arg = 2
  /\ req[2].isDuplicate
  /\ Cardinality({i \in Positions : IsHuman(i)}) = 1

\* C2: createJsonStream adds the assistant message at most once per stream,
\* and while chunks are still being produced nothing of the answer is stored
C2_SingleCommitAfterStreaming ==
  \A r \in Reqs :
     /\ req[r].aiAdds <= 1
     /\ req[r].pc = "streaming" =>
          /\ req[r].aiAdds = 0
          /\ \A i \in Positions : getMessageId(history[i]) # req[r].aiMessageId
     /\ req[r].aiAdds = 1 => req[r].pc \in {"done", "archived"}

\* a stream of two lines was committed once
C2_Witness ==
  \E r \in Reqs :
     /\ req[r].pc = "done"
     /\ req[r].aiAdds = 1
     /\ Len(req[r].lines) = 2

\* C3 (as claimed): the stored history never holds two assistant messages
\* with the same content, whatever whitespace the answer begins or ends with
C3_NoDuplicateAi ==
  \A i, j \in Positions :
     (i < j /\ IsAi(i) /\ IsAi(j)) => history[i].content # history[j].content

Interrupted(r) == req[r].pc \in {"cancelled", "failed"}

\* request r has just completed its stream, and it repeats the question of
\* the request before it, whose stream was interrupted
RetryCompleted(r) ==
  /\ r > 1
  /\ last.op = "streamEnd"
  /\ last.arg = r
  /\ Interrupted(r - 1)
  /\ req[r - 1].question = req[r].question

\* C4 (as claimed, for an answer that is not blank): an interrupted stream
\* persists no assistant message, and once the retry of the same question has
\* completed the history holds exactly one human message with that question
\* and exactly one assistant message with the retried answer
C4_InterruptedThenRetry ==
  /\ \A r \in Reqs :
        (Interrupted(r) /\ req[r].aiMessageId # Null) =>
          /\ req[r].aiAdds = 0
          /\ \A i \in Positions : getMessageId(history[i]) # req[r].aiMessageId
  /\ \A r \in Reqs :
        (RetryCompleted(r) /\ Trim(req[r].fullResponse) # <<>>) =>
          /\ Cardinality({i \in Positions :
                IsHuman(i) /\ history[i].content = req[r].question}) = 1
          /\ Cardinality({i \in Positions :
                IsAi(i) /\ history[i].content = req[r].fullResponse}) = 1

\* what identifies a message across a rewrite: serial, type and content
Core(h) ==
  [i \in 1..Len(h) |-> <<h[i].key, h[i].type, h[i].content>>]

DeletedOk == last.op = "deleteMessage" /\ last.status = "ok"

\* the messages of h whose identifier is not id, in order
Others(h, id) ==
  LET Differs(msg) ==
        (IF msg.akId # Null THEN msg.akId ELSE msg.rmId) # id
  IN SelectSeq(h, Differs)

\* C5: after a successful deleteMessage the stored history is exactly the
\* messages stored before whose identifier differs from messageId, in the
\* same order and with unchanged type and content
C5_DeletionRewritesRemaining ==
  DeletedOk => Core(history) = Core(Others(last.before, last.arg))

\* a message in the middle of at least three was deleted
C5_Witness ==
  /\ DeletedOk
  /\ Len(last.before) >= 3
  /\ getMessageId(last.before[2]) = last.arg
  /\ Len(history) >= 2

\* C6: a successful deleteMessage reduces the number of stored messages by
\* exactly one, whatever the position of the deleted message
C6_DeletionRemovesOne ==
  DeletedOk => Len(history) = Len(last.before) - 1

\* the last of at least three messages was deleted
C6_Witness ==
  /\ DeletedOk
  /\ Len(last.before) >= 3
  /\ getMessageId(last.before[Len(last.before)]) = last.arg
  /\ Len(history) = Len(last.before) - 1

\* the message stored before the deletion under the serial of msg
Before(msg) ==
  LET i == CHOOSE i \in 1..Len(last.before) : last.before[i].key = msg.key
  IN last.before[i]

\* every remaining message carries key k with its own earlier value, or with
\* the first message's value where it had none
Inherited(k) ==
  \A i \in Positions :
     history[i].kw[k] =
        IF Before(history[i]).kw[k] # Absent THEN Before(history[i]).kw[k]
        ELSE last.before[1].kw[k]

PositionKeys == {"messageIndex", "isFirst", "isLast"}

\* C7 (as claimed): after a successful deleteMessage every additional_kwargs
\* key of the first stored message (other than messageId, content, role) is
\* in every remaining message, with the first message's value unless the
\* remaining message had its own value
C7_MetadataSurvives ==
  DeletedOk =>
    \A k \in MetaKeys : last.before[1].kw[k] # Absent => Inherited(k)

\* C7 (amended): the same for every key except messageIndex, isFirst and
\* isLast, which deleteMessage recomputes from the new position
C7_MetadataSurvivesAmended ==
  DeletedOk =>
    \A k \in MetaKeys \ PositionKeys :
       last.before[1].kw[k] # Absent =>
          /\ Inherited(k)
          /\ \A i \in Positions : history[i].kw[k] # Absent

\* the first message was deleted, it carried updatedAt, and a remaining
\* message that had no updatedAt received it
C7_Witness ==
  /\ DeletedOk
  /\ getMessageId(last.before[1]) = last.arg
  /\ last.before[1].kw["updatedAt"] # Absent
  /\ \E i \in Positions :
        /\ Before(history[i]).kw["updatedAt"] = Absent
        /\ history[i].kw["updatedAt"] = last.before[1].kw["updatedAt"]

\* C8 (as claimed): a message is reported with one identifier in every
\* listing, and a reported identifier is the identifier deleteMessage finds
\* on that message as long as it is stored
C8_StableIdentifiers ==
  /\ \A p, q \in listed : p[1] = q[1] => p[2] = q[2]
  /\ \A p \in listed : \A i \in Positions :
        history[i].key = p[1] => getMessageId(history[i]) = p[2]

NonEmptyChunks(chunks) ==
  LET NonEmpty(c) == c # <<>>
  IN SelectSeq(chunks, NonEmpty)

Streamed(r) == req[r].pc \in {"streaming", "done", "cancelled", "failed"}

\* C9: the emitted lines are, in order, one newline-terminated line per
\* non-empty chunk produced so far, each carrying that chunk as
\* delta.content with role 'assistant' and the stream's sessionId and messageId
C9_LinesFollowChunks ==
  \A r \in Reqs :
     Streamed(r) =>
        LET chunks == NonEmptyChunks(req[r].produced)
            lines == req[r].lines
        IN /\ Len(lines) = Len(chunks)
           /\ \A i \in 1..Len(lines) :
                 /\ lines[i].delta.content = chunks[i]
                 /\ lines[i].delta.role = "assistant"
                 /\ lines[i].context.sessionId = SessionId
                 /\ lines[i].context.messageId = req[r].aiMessageId
                 /\ lines[i].eol = "\n"

\* an empty chunk and then a non-empty chunk were produced, one line was
\* emitted
C9_Witness ==
  \E r \in Reqs :
     /\ req[r].pc = "streaming"
     /\ Len(req[r].produced) = 2
     /\ req[r].produced[1] = <<>>
     /\ Len(req[r].lines) = 1

RECURSIVE Concatenation(_)
Concatenation(lines) ==
  IF lines = <<>> THEN <<>>
  ELSE Head(lines).delta.content \o Concatenation(Tail(lines))

\* C10: when createJsonStream has persisted the assistant message, its
\* content is the concatenation of the delta.content of the emitted lines
\* and its identifier is the messageId of every emitted line
C10_PersistedEqualsStreamed ==
  (last.op = "streamEnd" /\ req[last.arg].aiAdds = 1) =>
     LET msg == history[Len(history)]
         lines == req[last.arg].lines
     IN /\ msg.type = "ai"
        /\ msg.content = Concatenation(lines)
        /\ \A i \in 1..Len(lines) :
              lines[i].context.messageId = getMessageId(msg)

\* an answer of two lines that ends with a blank was persisted
C10_Witness ==
  /\ last.op = "streamEnd"
  /\ req[last.arg].aiAdds = 1
  /\ Len(req[last.arg].lines) = 2
  /\ req[last.arg].fullResponse = <<"a", " ">>

\* C13: a postChats request whose body has no messages, an empty messages
\* list or a last message with empty content is answered badRequest; the
\* handler has read no history, stored nothing, taken no identifier and
\* started no stream
C13_InvalidBodyNoEffect ==
  /\ \A r \in Reqs :
        req[r].pc = "rejected" => req[r] = [IdleReq EXCEPT !.pc = "rejected"]
  /\ (last.op = "postChats" /\ last.status = "badRequest") =>
        /\ req[last.arg].pc = "rejected"
        /\ history = last.before

\* a request was rejected while the session held a completed exchange
C13_Witness ==
  /\ last.op = "postChats"
  /\ last.status = "badRequest"
  /\ last.arg = 2
  /\ Len(history) = 2
  /\ req[2] = [IdleReq EXCEPT !.pc = "rejected"]

\* C14 (as claimed): a request classified as a duplicate goes on to stream,
\* and its userMessageId is the identifier of a stored human message whose
\* trimmed content equals the trimmed question; it never ends in an error
C14_DuplicateReusesId ==
  (last.op = "postChats" /\ req[last.arg].isDuplicate) =>
     /\ last.status = "stream"
     /\ req[last.arg].pc = "streaming"
     /\ \E i \in Positions :
           /\ IsHuman(i)
           /\ Trim(history[i].content) = Trim(req[last.arg].question)
           /\ getMessageId(history[i]) = req[last.arg].userMessageId

\* the stream of request r has ended and its accumulated text is blank
EndedBlank(r) ==
  /\ req[r].pc = "done"
  /\ req[r].aiMessageId # Null
  /\ Trim(req[r].fullResponse) = <<>>

\* C16: when the concatenation of the model chunks is empty or blank,
\* createJsonStream ends without reading the history and without storing an
\* assistant message: the history still ends with the request's human message
C16_BlankNeverStored ==
  /\ \A r \in Reqs :
        EndedBlank(r) =>
          /\ req[r].aiAdds = 0
          /\ \A i \in Positions : getMessageId(history[i]) # req[r].aiMessageId
  /\ (last.op = "streamEnd" /\ EndedBlank(last.arg)) =>
        /\ last.status = "blank"
        /\ last.before = <<>>
        /\ ~req[last.arg].isDuplicate =>
              /\ IsHuman(Len(history))
              /\ getMessageId(history[Len(history)]) = req[last.arg].userMessageId

\* a stream whose only chunk is a blank has ended after one emitted line
C16_Witness ==
  /\ last.op = "streamEnd"
  /\ EndedBlank(last.arg)
  /\ req[last.arg].fullResponse = <<" ">>
  /\ Len(req[last.arg].lines) = 1
  /\ IsHuman(Len(history))

DeleteRefused == last.op = "deleteMessage" /\ last.status = "badRequest"

\* C18: when deleteMessage answers badRequest (messageId, sessionId or userId
\* missing, a session without messages, no stored message with the
\* identifier) the stored history is exactly what it was, so neither clear
\* nor addMessage was called
C18_RefusedDeletionChangesNothing ==
  DeleteRefused => history = last.before

\* deletions were refused on a session holding messages: one naming no stored
\* message, and one naming a stored message without sessionId or userId
C18_Witness ==
  /\ DeleteRefused
  /\ Len(history) >= 2
  /\ last.arg # Null
  /\ ~HasMessage(history, last.arg)

C18_WitnessMissingUser ==
  /\ DeleteRefused
  /\ Len(history) >= 2
  /\ HasMessage(history, last.arg)

\* no earlier message of h has the type and content of h[i]
IsFirstOfKind(h, i) ==
  \A j \in 1..(i - 1) : h[j].type # h[i].type \/ h[j].content # h[i].content

\* the messages of h from position i on that are the first of their kind
RECURSIVE FirstsFrom(_, _)
FirstsFrom(h, i) ==
  IF i > Len(h) THEN <<>>
  ELSE (IF IsFirstOfKind(h, i) THEN <<h[i]>> ELSE <<>>) \o FirstsFrom(h, i + 1)

CleanedUp == last.op = "cleanupDuplicates" /\ last.status = "ok"

\* C20: after a successful cleanupDuplicates the stored history is exactly
\* the messages of the previous history that were the first with their
\* (type, content), in the original order (a message that had an identifier
\* is stored as it was), and removedDuplicates is the number of messages
\* that repeated an earlier (type, content)
C20_CleanupKeepsFirsts ==
  CleanedUp =>
    LET firsts == FirstsFrom(last.before, 1)
    IN /\ Core(history) = Core(firsts)
       /\ \A i \in 1..Len(firsts) :
             getMessageId(firsts[i]) # Null => history[i] = firsts[i]
       /\ last.arg = Cardinality({i \in 1..Len(last.before) :
                                    ~IsFirstOfKind(last.before, i)})

\* the history held two equal assistant messages with a human message
\* between them; the second was removed and the three others kept
C20_Witness ==
  /\ CleanedUp
  /\ Len(last.before) = 4
  /\ last.arg = 1
  /\ Len(history) = 3
  /\ last.before[2].content = last.before[4].content
  /\ IsHuman(3)

SaveFailed ==
  /\ last.op = "streamEnd"
  /\ last.status \in {FailedStatus(call) : call \in SaveCalls}

\* C17: when getMessages or addMessage fails after the loop, the stream of
\* that request still ends normally, every non-empty chunk of the model has
\* been emitted as a line, and the history holds no assistant message of
\* that request
C17_FailedSaveEndsStream ==
  SaveFailed =>
    LET r == last.arg
    IN /\ req[r].pc = "done"
       /\ req[r].produced = req[r].chunks
       /\ Len(req[r].lines) = Len(NonEmptyChunks(req[r].chunks))
       /\ Concatenation(req[r].lines) = req[r].fullResponse
       /\ req[r].aiAdds = 0
       /\ \A i \in Positions : getMessageId(history[i]) # req[r].aiMessageId

\* addMessage failed for an answer of two lines
C17_Witness ==
  /\ SaveFailed
  /\ last.status = FailedStatus("addMessage")
  /\ Len(req[last.arg].lines) = 2
  /\ req[last.arg].pc = "done"

\* p is the first Len(p) messages of h: same serial, type, content and
\* identifier at every position
IsPrefixOf(p, h) ==
  /\ Len(p) <= Len(h)
  /\ Core(p) = SubSeq(Core(h), 1, Len(p))
  /\ \A i \in 1..Len(p) :
        (IF p[i].akId # Null THEN p[i].akId ELSE p[i].rmId)
          = (IF h[i].akId # Null THEN h[i].akId ELSE h[i].rmId)

\* a deleteMessage that passed its validation: running, ended, or failed
DeleteEntered ==
  /\ last.op = "deleteMessage"
  /\ last.status \in {"read", "writing", "ok", "serviceUnavailable"}

\* C19: from the moment deleteMessage has read the messages, the stored
\* history is the original list (until clear) or a prefix of the filtered
\* list in order (after it); it is the whole filtered list when the handler
\* succeeds, and when clear or an addMessage fails the handler answers
\* serviceUnavailable with the history left at the original list or at the
\* prefix written so far, the remaining messages missing
C19_ClearAndReinsertStates ==
  DeleteEntered =>
    LET filtered == Others(last.before, last.arg)
    IN /\ history = last.before \/ IsPrefixOf(history, filtered)
       /\ last.status = "read" => history = last.before
       /\ last.status = "writing" =>
             IsPrefixOf(history, filtered) /\ Len(history) < Len(filtered)
       /\ last.status = "ok" =>
             IsPrefixOf(history, filtered) /\ Len(history) = Len(filtered)
       /\ last.status = "serviceUnavailable" =>
             \/ history = last.before
             \/ IsPrefixOf(history, filtered) /\ Len(history) < Len(filtered)

\* an addMessage failed after one of three remaining messages was re-added:
\* the history holds that one message only
C19_Witness ==
  /\ last.op = "deleteMessage"
  /\ last.status = "serviceUnavailable"
  /\ Len(last.before) = 4
  /\ Len(history) = 1
  /\ history # last.before

\* clear failed: the history is the original list
C19_WitnessClearFailed ==
  /\ last.op = "deleteMessage"
  /\ last.status = "serviceUnavailable"
  /\ Len(last.before) = 4
  /\ history = last.before

\* the failing call leaves the history as it was
C19_FailureWritesNothing ==
  [][(Deleting /\ last'.status = "serviceUnavailable") => history' = history]_vars

\* request r has stored a human message of its own
AddedHuman(r) ==
  /\ req[r].pc \in {"streaming", "done", "cancelled", "failed"}
  /\ ~req[r].isDuplicate

\* C11 (as claimed): when two requests carry the same question, the history
\* holds at most one human message with that question, however their reads
\* and writes interleave
C11_OverlapOneHuman ==
  \A r1, r2 \in Reqs :
     (r1 < r2 /\ req[r1].question # <<>> /\ req[r1].question = req[r2].question)
       => Cardinality({i \in Positions :
             IsHuman(i) /\ history[i].content = req[r1].question}) <= 1

\* C11 (amended): a request is classified as a duplicate exactly when the
\* history it read held a human message with the same trimmed content; every
\* stored human message was added by one request not so classified, and no
\* request added two
C11_OverlapOnePerReader ==
  /\ \A r \in Reqs :
        req[r].pc = "checked" =>
          (req[r].isDuplicate <=>
             \E i \in 1..Len(req[r].existingMessages) :
                /\ req[r].existingMessages[i].type = "human"
                /\ Trim(req[r].existingMessages[i].content)
                     = Trim(req[r].question))
  /\ \A i \in Positions :
        IsHuman(i) =>
          \E r \in Reqs :
             /\ AddedHuman(r)
             /\ req[r].userMessageId = getMessageId(history[i])
             /\ req[r].question = history[i].content
  /\ \A i, j \in Positions :
        i < j => getMessageId(history[i]) # getMessageId(history[j])

\* two requests with the same question both read the empty history and both
\* stored their human message
C11_Witness ==
  /\ AddedHuman(1)
  /\ AddedHuman(2)
  /\ req[1].question = req[2].question
  /\ Cardinality({i \in Positions :
        IsHuman(i) /\ history[i].content = req[1].question}) = 2

\* the second request read the history after the first had written, and
\* stored no human message
C11_WitnessSuppressed ==
  /\ AddedHuman(1)
  /\ req[2].pc = "streaming"
  /\ req[2].isDuplicate
  /\ req[1].question = req[2].question
  /\ req[2].userMessageId = req[1].userMessageId
  /\ Cardinality({i \in Positions : IsHuman(i)}) = 1

\* the model stream of request r has ended normally with a text that is not
\* blank, and the after-loop code has not run yet
Completed(r) ==
  /\ req[r].pc = "streaming"
  /\ req[r].produced = req[r].chunks
  /\ Trim(req[r].fullResponse) # <<>>

\* the answer of request r is stored under the stream's messageId
Persisted(r) ==
  \E i \in Positions :
     /\ IsAi(i)
     /\ getMessageId(history[i]) = req[r].aiMessageId
     /\ history[i].content = req[r].fullResponse

\* C15 (as claimed): when the model stream has ended normally with a text
\* that is not blank and no assistant message with that content is stored,
\* the assistant message is eventually stored, the caller reading the stream
\* to its end
C15_CompletedAnswerStored ==
  \A r \in Reqs :
     (Completed(r) /\ ~\E i \in Positions :
                        IsAi(i) /\ history[i].content = req[r].fullResponse)
       ~> Persisted(r)

\* the same with the test the code makes: no stored assistant message has
\* the trimmed text as its content
C15_StoredUnlessTrimmedTextStored ==
  \A r \in Reqs :
     (Completed(r) /\ ~ResponseAlreadyExists(history, req[r].fullResponse))
       ~> Persisted(r)

\* the responses with a delta among the first n of the stream, in order
RECURSIVE WithDelta(_, _)
WithDelta(deltas, n) ==
  IF n = 0 THEN <<>>
  ELSE WithDelta(deltas, n - 1)
         \o (IF deltas[n] = Absent THEN <<>>
             ELSE << [delta |-> deltas[n], seq |-> n] >>)

\* C12: getCompletion has created exactly one promise per received response
\* that has a delta, in the order received; the values handed to the caller
\* are those same responses in that order, all of them but the one whose
\* timer is still running; responses without delta are skipped, and when
\* the generator has returned every response was taken
C12_RepublishKeepsOrder ==
  client.pc # "idle" =>
    LET expected == WithDelta(client.result, client.received)
    IN /\ client.promises = expected
       /\ client.delivered =
             IF client.pc = "delayed"
               THEN SubSeq(expected, 1, Len(expected) - 1)
               ELSE expected
       /\ client.pc = "done" => client.received = Len(client.result)

\* a stream of a delta, a response without delta and a delta with empty
\* content was republished as two values
C12_Witness ==
  /\ client.pc = "done"
  /\ Len(client.result) = 3
  /\ client.result[1] # Absent
  /\ client.result[2] = Absent
  /\ client.result[3] = << <<>> >>
  /\ Len(client.delivered) = 2
  /\ client.delivered[2].seq = 3

\* cleanupDuplicates has just run for the second time in a row
CleanedUpAgain == CleanedUp /\ last.again

\* C21: a cleanupDuplicates that runs right after a successful
\* cleanupDuplicates reports removedDuplicates = 0 and leaves the stored
\* history, identifiers included, exactly as it found it
C21_CleanupIdempotent ==
  CleanedUpAgain =>
    /\ last.arg = 0
    /\ history = last.before
    /\ \A i \in Positions :
          getMessageId(history[i]) = getMessageId(last.before[i])

\* the second run in a row found the three messages the first run had left
\* of four
C21_Witness ==
  /\ CleanedUpAgain
  /\ last.arg = 0
  /\ Len(history) = 3
  /\ serial = 4

\* C22 (as claimed): after a successful cleanupDuplicates every stored
\* message has an identifier, also when the session held no duplicates
C22_CleanupGivesIds ==
  CleanedUp => \A i \in Positions : getMessageId(history[i]) # Null

\* the same when the run removed at least one message
C22_RewriteGivesIds ==
  (CleanedUp /\ last.arg > 0) =>
     \A i \in Positions : getMessageId(history[i]) # Null

\* C23: from an empty session, whatever postChats, deleteMessage and
\* cleanupDuplicates have done, every stored message has an identifier and
\* no two stored messages have the same one
C23_UniqueIdentifiers ==
  /\ \A i \in Positions : getMessageId(history[i]) # Null
  /\ \A i, j \in Positions :
        i # j => getMessageId(history[i]) # getMessageId(history[j])

\* the first of four messages was deleted and the three others were
\* re-added with the merged metadata, each under its own identifier
C23_Witness ==
  /\ DeletedOk
  /\ Len(last.before) = 4
  /\ getMessageId(last.before[1]) = last.arg
  /\ Len(history) = 3
  /\ Cardinality({getMessageId(history[i]) : i \in Positions}) = 3
  /\ \A i \in Positions : history[i].kw["updatedAt"] # Absent

====
